---- MODULE Spec2Model ----
(***************************************************************************)
(* A model of the two-deck DJ mixing console and voice unit:               *)
(*   - Deck.detectBPM, the offline tempo estimator (TempoSpec);            *)
(*   - AudioEngine / Deck / DjDeck, master tempo and deck sync (Spec);     *)
(*   - VoiceEngine / VoiceDashboard, record-playback state machine and     *)
(*     the effect presets (VoiceSpec).                                     *)
(*   - file loading in a deck and in the voice unit together (LoadSpec);   *)
(*   - the crossfader of AudioEngine and PromptDjMidi (MixerSpec).         *)
(* Real numbers are exact rationals [n, d]; amplitudes and effect          *)
(* parameters with a fractional part are kept in hundredths.               *)
(***************************************************************************)
EXTENDS Integers, Sequences, FiniteSets, Bags, TLC

VARIABLES
    estBuffer,     \* detectBPM: the decoded buffer handed to the estimator
    estResult,     \* detectBPM: "none" before the call, then the returned bpm
    masterBpm,     \* AudioEngine.masterBpm
    deck,          \* Deck fields of deckA and deckB, and their Tone.Player
    djDeck,        \* DjDeck component state (@state fields) of each deck
    pendingLoads,  \* per deck, the loadTrack calls suspended on player.load
    deckEvent,     \* the last deck/mixer operation and what it dispatched
    hasAdopted,    \* history: some loadTrack has set the master tempo
    voice,         \* VoiceEngine fields, its player, mic and recorder
    fx,            \* VoiceEngine effect-chain parameters
    dashboard,     \* VoiceDashboard @state fields, written by syncState
    voiceOps,      \* bag of the VoiceEngine async calls suspended on an await
    voiceEvent,    \* the last voice operation and what it dispatched
    crossfade,     \* AudioEngine.crossfader.fade, the value its ramp ends at
    xFaderValue,   \* PromptDjMidi.xFaderValue (@state)
    busEvent       \* the last crossfader operation and the value it was given

estVars == <<estBuffer, estResult>>
deckVars == <<masterBpm, deck, djDeck, pendingLoads, deckEvent, hasAdopted>>
voiceVars == <<voice, fx, dashboard, voiceOps, voiceEvent>>
mixVars == <<crossfade, xFaderValue, busEvent>>
vars == <<estBuffer, estResult, masterBpm, deck, djDeck, pendingLoads,
          deckEvent, hasAdopted, voice, fx, dashboard, voiceOps, voiceEvent,
          crossfade, xFaderValue, busEvent>>

-----------------------------------------------------------------------------
(* Exact arithmetic on JavaScript numbers that are ratios of integers.     *)

Min(S) == CHOOSE x \in S : \A y \in S : x <= y

Abs(x) == IF x < 0 THEN -x ELSE x

RECURSIVE Gcd(_, _)
Gcd(a, b) == IF b = 0 THEN a ELSE Gcd(b, a % b)

\* the number n/d (d # 0), in lowest terms with a positive denominator
Rat(n, d) ==
    LET g == Gcd(Abs(n), Abs(d))
        s == IF d < 0 THEN -1 ELSE 1
    IN  [n |-> (s * n) \div g, d |-> (s * d) \div g]

Num(k) == [n |-> k, d |-> 1]

RatLt(a, b) == a.n * b.d < b.n * a.d

RatGt(a, b) == RatLt(b, a)

RatLe(a, b) == ~RatLt(b, a)

RatMul(a, b) == Rat(a.n * b.n, a.d * b.d)

\* a / b for b # 0
RatDiv(a, b) == Rat(a.n * b.d, a.d * b.n)

\* Math.round: the nearest integer, halves towards +Infinity
MathRound(a) == (2 * a.n + a.d) \div (2 * a.d)

-----------------------------------------------------------------------------
(* Deck.detectBPM                                                          *)
(* A buffer is [sampleRate, length, channelData]; channelData is channel 0 *)
(* kept sparsely: a function from the sample indices that are not silent   *)
(* to their amplitude in hundredths of full scale; every other index below *)
(* length holds 0.                                                         *)

step == 4

threshold == 60

minPeaks == 10

bucket == 100

rangeLow == 70

rangeHigh == 180

\* `channelData[i] > threshold`
isPeak(sample) == sample > threshold

\* The scan `for (i = 0; i < length; i += step)`, started at position i with
\* the peaks found so far. Iterations over samples that are no peak only
\* advance i by step, so the next peak is the first one at i, i+step, ...;
\* after it the scan resumes at peak + floor(sampleRate / 4) + step.
RECURSIVE scanPeaks(_, _, _)
scanPeaks(buffer, i, peaks) ==
    LET hits == {j \in DOMAIN buffer.channelData :
                    /\ j >= i
                    /\ j < buffer.length
                    /\ (j - i) % step = 0
                    /\ isPeak(buffer.channelData[j])}
    IN  IF hits = {} THEN peaks
        ELSE LET j == Min(hits)
             IN  scanPeaks(buffer, j + (buffer.sampleRate \div 4) + step,
                           Append(peaks, j))

findPeaks(buffer) == scanPeaks(buffer, 0, <<>>)

\* `intervals.push(peaks[i] - peaks[i - 1])`
peakIntervals(peaks) ==
    [k \in 1..(Len(peaks) - 1) |-> peaks[k + 1] - peaks[k]]

\* `Math.round(interval / 100) * 100` for an interval >= 0
roundInterval(interval) == ((2 * interval + bucket) \div (2 * bucket)) * bucket

\* the histogram `groups`: quantized interval -> number of occurrences
groupIntervals(intervals) ==
    LET keys == {roundInterval(intervals[k]) : k \in DOMAIN intervals}
    IN  [key \in keys |->
            Cardinality({k \in DOMAIN intervals :
                            roundInterval(intervals[k]) = key})]

\* The order in which `for (const interval in groups)` visits the keys: every
\* key is the decimal string of a non-negative integer (an array-index key),
\* and those are enumerated in ascending numeric order.
RECURSIVE ascending(_)
ascending(S) ==
    IF S = {} THEN <<>> ELSE <<Min(S)>> \o ascending(S \ {Min(S)})

forInKeys(groups) == ascending(DOMAIN groups)

\* the loop keeping the first key whose count exceeds every earlier one
RECURSIVE mostCommon(_, _, _, _)
mostCommon(groups, keys, maxCount, bestInterval) ==
    IF keys = <<>> THEN bestInterval
    ELSE IF groups[Head(keys)] > maxCount
         THEN mostCommon(groups, Tail(keys), groups[Head(keys)], Head(keys))
         ELSE mostCommon(groups, Tail(keys), maxCount, bestInterval)

findBestInterval(intervals) ==
    LET groups == groupIntervals(intervals)
    IN  mostCommon(groups, forInKeys(groups), 0, 0)

\* `(60 * sampleRate) / (bestInterval * step)`
rawBpm(sampleRate, bestInterval) == Rat(60 * sampleRate, bestInterval * step)

\* "Clamp to reasonable DJ range (70-180)"
octaveCorrect(bpm) ==
    IF RatLt(bpm, Num(rangeLow)) THEN RatMul(bpm, Num(2))
    ELSE IF RatGt(bpm, Num(rangeHigh)) THEN RatDiv(bpm, Num(2))
    ELSE Num(MathRound(bpm))

\* the guard with its bound off by one
tooFewPeaks_offByOne(peaks) == Len(peaks) < minPeaks - 1

\* `if (peaks.length < 10) return 0`
tooFewPeaks(peaks) == Len(peaks) < minPeaks

detectBPM(buffer) ==
    LET peaks == findPeaks(buffer)
        bestInterval == findBestInterval(peakIntervals(peaks))
    IN  IF tooFewPeaks(peaks) THEN Num(0)
        ELSE IF bestInterval = 0 THEN Num(0)
        ELSE octaveCorrect(rawBpm(buffer.sampleRate, bestInterval))

-----------------------------------------------------------------------------
(* Decoded buffers.                                                        *)

\* `count` transients, `spacing` samples apart from index 0, each `width`
\* samples long at `amplitude`; the buffer ends one spacing after the last.
PulseTrain(sampleRate, spacing, count, width, amplitude) ==
    [sampleRate |-> sampleRate,
     length |-> count * spacing,
     channelData |->
        [i \in {k * spacing + j : k \in 0..(count - 1), j \in 0..(width - 1)}
            |-> amplitude]]

\* sample rates an AudioContext decodes to
SampleRates == {8000, 44100, 48000}

MaxPeaks == 20

\* the re-trigger skip, 3/8 s, 1/2 s and 1 s between transients
SpacingsFor(sampleRate) ==
    {(sampleRate \div 4) + step, (3 * sampleRate) \div 8,
     sampleRate \div 2, sampleRate}

PulseWidths == {1, 8}

\* silence, exactly at the threshold, above it, and below its negative
Amplitudes == {0, 60, 90, -90}

\* every <<sampleRate, spacing, count, width, amplitude>> of the test inputs
TestInputs ==
    UNION {{sr} \X SpacingsFor(sr) \X (0..MaxPeaks) \X PulseWidths \X Amplitudes :
            sr \in SampleRates}

TestBuffers == {PulseTrain(x[1], x[2], x[3], x[4], x[5]) : x \in TestInputs}

\* `count` transients from index 0 whose distances alternate between `first`
\* and `second` samples, each `width` samples long at `amplitude`
AlternatingTrain(sampleRate, first, second, count, width, amplitude) ==
    LET at(k) == ((k + 1) \div 2) * first + (k \div 2) * second
    IN  [sampleRate |-> sampleRate,
         length |-> at(count),
         channelData |->
            [i \in {at(k) + j : k \in 0..(count - 1), j \in 0..(width - 1)}
                |-> amplitude]]

\* beats alternately 1/2 s and 3/8 s apart at 48 kHz, either distance first,
\* with as many of the one as of the other (11 transients) or not (12)
AlternatingInputs ==
    {<<48000, 24000, 18000>>, <<48000, 18000, 24000>>} \X {11, 12}

AlternatingBuffers ==
    {AlternatingTrain(x[1][1], x[1][2], x[1][3], x[2], 8, 90) :
        x \in AlternatingInputs}

\* the tracks a user loads on a deck, by name
Tracks == {"silence", "pulse375ms", "pulse500ms"}

TrackBuffer(track) ==
    CASE track = "silence" -> PulseTrain(44100, 22050, 20, 8, 0)
      [] track = "pulse375ms" -> PulseTrain(48000, 18000, 12, 8, 90)
      [] track = "pulse500ms" -> PulseTrain(44100, 22050, 20, 8, 90)

\* what detectBPM returns for each track's buffer
TrackBpm == [track \in Tracks |-> detectBPM(TrackBuffer(track))]
-----------------------------------------------------------------------------
(* AudioEngine, Deck and the DjDeck component.                             *)

Decks == {"A", "B"}

defaultMasterBpm == 120

\* Deck field initialisers; the Tone.Player starts stopped and empty
DeckInit ==
    [isPlaying |-> FALSE,
     bpm |-> Num(0),
     playbackRate |-> Num(1),
     isSynced |-> FALSE,
     playerState |-> "stopped",
     playerRate |-> Num(1),
     buffer |-> "none"]

\* DjDeck @state initialisers
DjDeckInit == [isPlaying |-> FALSE, isSynced |-> FALSE, bpm |-> Num(0)]

\* Deck.setRate
setRate(dk, rate) == [dk EXCEPT !.playbackRate = rate, !.playerRate = rate]

\* the ratio taken the wrong way round
syncRate_inverted(master, bpm) == RatDiv(bpm, master)

\* `this.engine.masterBpm / this.bpm`
syncRate(master, bpm) == RatDiv(master, bpm)

\* a recompute that falls back to rate 1 when a tempo is unknown
syncToMaster_resets(dk, master) ==
    IF RatGt(dk.bpm, Num(0)) /\ RatGt(master, Num(0))
    THEN setRate(dk, syncRate(master, dk.bpm))
    ELSE setRate(dk, Num(1))

\* Deck.syncToMaster, reading engine.masterBpm = master
syncToMaster(dk, master) ==
    IF RatGt(dk.bpm, Num(0)) /\ RatGt(master, Num(0))
    THEN setRate(dk, syncRate(master, dk.bpm))
    ELSE dk

\* a setMasterBpm that recomputes every deck, synced or not
syncDecks_all(decks, bpm) ==
    [d \in Decks |-> syncToMaster(decks[d], bpm)]

\* the decks after AudioEngine.setMasterBpm(bpm) has set masterBpm
syncDecks(decks, bpm) ==
    [d \in Decks |->
        IF decks[d].isSynced THEN syncToMaster(decks[d], bpm) ELSE decks[d]]

\* turning sync off with the rate set to 0 instead of 1
toggleSync_zeroRate(dk, master) ==
    LET flipped == [dk EXCEPT !.isSynced = ~dk.isSynced]
    IN  IF flipped.isSynced THEN syncToMaster(flipped, master)
        ELSE setRate(flipped, Num(0))

\* Deck.toggleSync
toggleSync(dk, master) ==
    LET flipped == [dk EXCEPT !.isSynced = ~dk.isSynced]
    IN  IF flipped.isSynced THEN syncToMaster(flipped, master)
        ELSE setRate(flipped, Num(1))

\* playPause without `if (this.isSynced) this.syncToMaster()`
playPause_noSync(dk, master) ==
    IF dk.playerState = "started"
    THEN [dk EXCEPT !.playerState = "stopped", !.isPlaying = FALSE]
    ELSE [dk EXCEPT !.playerState = "started", !.isPlaying = TRUE]

\* Deck.playPause
playPause(dk, master) ==
    IF dk.playerState = "started"
    THEN [dk EXCEPT !.playerState = "stopped", !.isPlaying = FALSE]
    ELSE [(IF dk.isSynced THEN syncToMaster(dk, master) ELSE dk)
            EXCEPT !.playerState = "started", !.isPlaying = TRUE]

\* the adoption test without its `this.bpm > 0` conjunct
adoptsMaster_anyBpm(master, bpm) == master = Num(defaultMasterBpm)

\* `this.engine.masterBpm === 120 && this.bpm > 0`
adoptsMaster(master, bpm) ==
    master = Num(defaultMasterBpm) /\ RatGt(bpm, Num(0))

\* the bpm Deck.loadTrack stores once the player holds `track`
estimatedBpm(track) == TrackBpm[track]

\* values the master BPM knob (min 60, max 180) yields after Math.round
MasterKnobValues == {100, 120}

\* a value of the RATE knob (min 0.5, max 1.5) that no sync ratio equals
RateKnobValues == {Rat(1, 2)}

\* loadTrack calls in flight at once, over both decks
MaxPending == 1

NoLoaded == <<>>

\* the operation that ran, whether it took the adoption branch, the
\* 'loaded' events it dispatched, and whether it went through the
\* `if (this.isSynced) this.toggleSync()` of DjDeck.handleRate
DeckEvent(op, d, adopted, loaded) ==
    [op |-> op, deck |-> d, adopted |-> adopted, loaded |-> loaded,
     unsynced |-> FALSE]

\* DjDeck.handleFileChange: deck.loadTrack(file) runs up to
\* `await this.player.load(url)` and is left suspended there. The file is
\* not read before its load resolves, so it is drawn there.
LoadTrack(d) ==
    /\ pendingLoads["A"] + pendingLoads["B"] < MaxPending
    /\ pendingLoads' = [pendingLoads EXCEPT ![d] = @ + 1]
    /\ deckEvent' = DeckEvent("loadTrack", d, FALSE, NoLoaded)
    /\ UNCHANGED <<masterBpm, deck, djDeck, hasAdopted>>

\* loadTrack calls in flight at once on one deck, where loads overlap
MaxOverlap == 2

\* DjDeck.handleFileChange on a deck whose earlier loads may still be in
\* flight: neither it nor Deck.loadTrack looks at them
LoadTrackOverlapping(d) ==
    /\ pendingLoads[d] < MaxOverlap
    /\ pendingLoads' = [pendingLoads EXCEPT ![d] = @ + 1]
    /\ deckEvent' = DeckEvent("loadTrack", d, FALSE, NoLoaded)
    /\ UNCHANGED <<masterBpm, deck, djDeck, hasAdopted>>

\* loadTrack dispatching 'loaded' before the adoption instead of after it
LoadResolved_dispatchesFirst(d, track) ==
    /\ pendingLoads[d] > 0
    /\ LET bpm == estimatedBpm(track)
           stored == [deck EXCEPT ![d].buffer = track, ![d].bpm = bpm]
           adopt == adoptsMaster(masterBpm, bpm)
           master == IF adopt THEN bpm ELSE masterBpm
       IN  /\ masterBpm' = master
           /\ deck' = IF adopt THEN syncDecks(stored, bpm) ELSE stored
           /\ djDeck' = [djDeck EXCEPT ![d].bpm = bpm]
           /\ deckEvent' = DeckEvent("loaded", d, adopt,
                                     <<[bpm |-> bpm, master |-> masterBpm]>>)
           /\ hasAdopted' = (hasAdopted \/ adopt)
    /\ pendingLoads' = [pendingLoads EXCEPT ![d] = @ - 1]

\* player.load resolved: the player holds the track, and loadTrack runs on:
\* detectBPM, the master-tempo adoption, the 'loaded' event and its DjDeck
\* listener. The await of the already computed detectBPM result resumes in
\* the same task, so no other handler runs in between.
LoadResolved(d, track) ==
    /\ pendingLoads[d] > 0
    /\ LET bpm == estimatedBpm(track)
           stored == [deck EXCEPT ![d].buffer = track, ![d].bpm = bpm]
           adopt == adoptsMaster(masterBpm, bpm)
           master == IF adopt THEN bpm ELSE masterBpm
       IN  /\ masterBpm' = master
           /\ deck' = IF adopt THEN syncDecks(stored, bpm) ELSE stored
           /\ djDeck' = [djDeck EXCEPT ![d].bpm = bpm]
           /\ deckEvent' = DeckEvent("loaded", d, adopt,
                                     <<[bpm |-> bpm, master |-> master]>>)
           /\ hasAdopted' = (hasAdopted \/ adopt)
    /\ pendingLoads' = [pendingLoads EXCEPT ![d] = @ - 1]

\* a failed load that also forgets the bpm of the track still loaded
LoadRejected_forgetsBpm(d) ==
    /\ pendingLoads[d] > 0
    /\ pendingLoads' = [pendingLoads EXCEPT ![d] = @ - 1]
    /\ deck' = [deck EXCEPT ![d].bpm = Num(0)]
    /\ deckEvent' = DeckEvent("loadFailed", d, FALSE, NoLoaded)
    /\ UNCHANGED <<masterBpm, djDeck, hasAdopted>>

\* player.load rejected: the catch block only logs
LoadRejected(d) ==
    /\ pendingLoads[d] > 0
    /\ pendingLoads' = [pendingLoads EXCEPT ![d] = @ - 1]
    /\ deckEvent' = DeckEvent("loadFailed", d, FALSE, NoLoaded)
    /\ UNCHANGED <<masterBpm, deck, djDeck, hasAdopted>>

\* DjDeck.togglePlay
TogglePlay(d) ==
    /\ deck' = [deck EXCEPT ![d] = playPause(@, masterBpm)]
    /\ djDeck' = [djDeck EXCEPT ![d].isPlaying = deck'[d].isPlaying]
    /\ deckEvent' = DeckEvent("playPause", d, FALSE, NoLoaded)
    /\ UNCHANGED <<masterBpm, pendingLoads, hasAdopted>>

\* a toggleSync that, turning sync off, leaves the rate where sync put it
ToggleSync_keepsRate(d) ==
    /\ deck' = [deck EXCEPT ![d] =
                   IF @.isSynced THEN [@ EXCEPT !.isSynced = FALSE]
                   ELSE toggleSync(@, masterBpm)]
    /\ djDeck' = [djDeck EXCEPT ![d].isSynced = deck'[d].isSynced]
    /\ deckEvent' = DeckEvent("toggleSync", d, FALSE, NoLoaded)
    /\ UNCHANGED <<masterBpm, pendingLoads, hasAdopted>>

\* DjDeck.toggleSync
ToggleSync(d) ==
    /\ deck' = [deck EXCEPT ![d] = toggleSync(@, masterBpm)]
    /\ djDeck' = [djDeck EXCEPT ![d].isSynced = deck'[d].isSynced]
    /\ deckEvent' = DeckEvent("toggleSync", d, FALSE, NoLoaded)
    /\ UNCHANGED <<masterBpm, pendingLoads, hasAdopted>>

\* a handleRate that sets the rate and leaves the sync flag alone
HandleRate_keepsSync(d, rate) ==
    /\ deck' = [deck EXCEPT ![d] = setRate(@, rate)]
    /\ deckEvent' = [DeckEvent("handleRate", d, FALSE, NoLoaded)
                        EXCEPT !.unsynced = djDeck[d].isSynced]
    /\ UNCHANGED <<masterBpm, djDeck, pendingLoads, hasAdopted>>

\* DjDeck.handleRate: `if (this.isSynced) this.toggleSync()`, then setRate
HandleRate(d, rate) ==
    /\ LET unsynced == IF djDeck[d].isSynced
                       THEN toggleSync(deck[d], masterBpm)
                       ELSE deck[d]
       IN  /\ deck' = [deck EXCEPT ![d] = setRate(unsynced, rate)]
           /\ djDeck' = [djDeck EXCEPT ![d].isSynced =
                            IF @ THEN unsynced.isSynced ELSE @]
    /\ deckEvent' = [DeckEvent("handleRate", d, FALSE, NoLoaded)
                        EXCEPT !.unsynced = djDeck[d].isSynced]
    /\ UNCHANGED <<masterBpm, pendingLoads, hasAdopted>>

\* PromptDjMidi.handleMasterBpm -> AudioEngine.setMasterBpm
HandleMasterBpm(bpm) ==
    /\ masterBpm' = Num(bpm)
    /\ deck' = syncDecks(deck, Num(bpm))
    /\ deckEvent' = DeckEvent("setMasterBpm", "engine", FALSE, NoLoaded)
    /\ UNCHANGED <<djDeck, pendingLoads, hasAdopted>>

DecksInit ==
    /\ masterBpm = Num(defaultMasterBpm)
    /\ deck = [d \in Decks |-> DeckInit]
    /\ djDeck = [d \in Decks |-> DjDeckInit]
    /\ pendingLoads = [d \in Decks |-> 0]
    /\ deckEvent = DeckEvent("init", "engine", FALSE, NoLoaded)
    /\ hasAdopted = FALSE
-----------------------------------------------------------------------------
(* VoiceEngine effect presets. Parameter values are in hundredths.         *)

Presets == 0..6

FxParams ==
    {"pitch", "bits", "distortion", "vibratoFrequency", "vibratoDepth",
     "delayWet", "delayFeedback", "reverbWet", "reverbDecay",
     "eqLow", "eqMid", "eqHigh", "playbackRate"}

\* the effect nodes as the VoiceEngine constructor builds them
FxConstructed ==
    [pitch |-> 0, bits |-> 1600, distortion |-> 0,
     vibratoFrequency |-> 0, vibratoDepth |-> 0,
     delayWet |-> 100, delayFeedback |-> 0,
     reverbWet |-> 20, reverbDecay |-> 150,
     eqLow |-> 0, eqMid |-> 0, eqHigh |-> 0, playbackRate |-> 100]

\* VoiceEngine.resetFX
resetFX(f) ==
    [f EXCEPT !.pitch = 0, !.distortion = 0, !.bits = 1600,
              !.vibratoDepth = 0, !.reverbWet = 20, !.reverbDecay = 150,
              !.delayWet = 0, !.eqHigh = 0, !.eqMid = 0, !.eqLow = 0,
              !.playbackRate = 100]

\* the parameters each case of the switch assigns
OverlayParams(index) ==
    CASE index = 0 -> {"eqHigh", "eqLow", "distortion"}
      [] index = 1 -> {"pitch", "distortion"}
      [] index = 2 -> {"pitch", "playbackRate"}
      [] index = 3 -> {"pitch", "distortion", "reverbWet"}
      [] index = 4 -> {"bits", "vibratoFrequency", "vibratoDepth"}
      [] index = 5 -> {"pitch", "reverbDecay", "reverbWet", "delayWet",
                       "delayFeedback"}
      [] index = 6 -> {"eqHigh", "eqLow", "eqMid", "distortion"}
      [] OTHER -> {}

\* the neutral value of every parameter: what resetFX assigns, and for the
\* two it does not assign (vibrato frequency, delay feedback) the value the
\* constructor gave the node
NeutralFx == [resetFX(FxConstructed) EXCEPT !.vibratoFrequency = 0,
                                            !.delayFeedback = 0]

\* the switch with case 4 adding to the vibrato frequency instead of
\* assigning it
presetOverlay_adding(f, index) ==
    CASE index = 0 -> [f EXCEPT !.eqHigh = 600, !.eqLow = -500,
                                !.distortion = 5]
      [] index = 1 -> [f EXCEPT !.pitch = -1200, !.distortion = 20]
      [] index = 2 -> [f EXCEPT !.pitch = 1200, !.playbackRate = 100]
      [] index = 3 -> [f EXCEPT !.pitch = -700, !.distortion = 80,
                                !.reverbWet = 50]
      [] index = 4 -> [f EXCEPT !.bits = 400,
                                !.vibratoFrequency = @ + 5000,
                                !.vibratoDepth = 50]
      [] index = 5 -> [f EXCEPT !.pitch = 700, !.reverbDecay = 600,
                                !.reverbWet = 80, !.delayWet = 50,
                                !.delayFeedback = 60]
      [] index = 6 -> [f EXCEPT !.eqHigh = -2000, !.eqLow = -2000,
                                !.eqMid = 1000, !.distortion = 40]
      [] OTHER -> f

\* the `switch (index)` of VoiceEngine.setPreset
presetOverlay(f, index) ==
    CASE index = 0 -> [f EXCEPT !.eqHigh = 600, !.eqLow = -500,
                                !.distortion = 5]
      [] index = 1 -> [f EXCEPT !.pitch = -1200, !.distortion = 20]
      [] index = 2 -> [f EXCEPT !.pitch = 1200, !.playbackRate = 100]
      [] index = 3 -> [f EXCEPT !.pitch = -700, !.distortion = 80,
                                !.reverbWet = 50]
      [] index = 4 -> [f EXCEPT !.bits = 400, !.vibratoFrequency = 5000,
                                !.vibratoDepth = 50]
      [] index = 5 -> [f EXCEPT !.pitch = 700, !.reverbDecay = 600,
                                !.reverbWet = 80, !.delayWet = 50,
                                !.delayFeedback = 60]
      [] index = 6 -> [f EXCEPT !.eqHigh = -2000, !.eqLow = -2000,
                                !.eqMid = 1000, !.distortion = 40]
      [] OTHER -> f

\* the effect parameters after VoiceEngine.setPreset(index)
setPreset(f, index) == presetOverlay(resetFX(f), index)

-----------------------------------------------------------------------------
(* VoiceEngine record/playback and the VoiceDashboard component.           *)

\* VoiceEngine after its constructor; mic, recorder and player are fresh
VoiceInit ==
    [isRecording |-> FALSE,
     isPlaying |-> FALSE,
     currentPreset |-> 0,
     micState |-> "stopped",
     recorderState |-> "stopped",
     playerLoaded |-> FALSE,
     playerState |-> "stopped"]

\* what VoiceDashboard.syncState copies on a 'state-change' event
syncState(v) ==
    [isRecording |-> v.isRecording,
     isPlaying |-> v.isPlaying,
     currentPreset |-> v.currentPreset]

MaxVoiceOps == 2

\* an async VoiceEngine call suspended at an await
Suspended(op, at) == [op |-> op, at |-> at]

CanSuspend == BagCardinality(voiceOps) < MaxVoiceOps

IsSuspended(op, at) == BagIn(Suspended(op, at), voiceOps)

\* a call reaches an await
suspend(ops, op, at) == ops (+) SetToBag({Suspended(op, at)})

\* the awaited promise settles and the call runs on
resume(ops, op, at) == ops (-) SetToBag({Suspended(op, at)})

\* how the promise of an async VoiceEngine call stands after the step `arg`
\* of the call: every rejection inside startMic, stopRecording and loadFile
\* is caught and logged, so a call that runs to its end fulfils
settles(op, arg) ==
    IF op \notin {"startRecording", "stopRecording", "loadFile"}
    THEN "returned"
    ELSE IF arg \in {"call", "blob"} THEN "pending" ELSE "fulfilled"

\* the operation that ran, whether it is the same call as the one before,
\* how many 'state-change' events it dispatched, and what its caller got
VoiceEvent(op, arg, dispatched) ==
    [op |-> op, arg |-> arg, dispatched |-> dispatched,
     repeat |-> voiceEvent.op = op /\ voiceEvent.arg = arg,
     settled |-> settles(op, arg)]

\* the body of startRecording after `await this.startMic()`
recordingStarted(v) ==
    IF v.micState = "started"
    THEN [v EXCEPT !.recorderState = "started", !.isRecording = TRUE]
    ELSE v

\* the early return of stopRecording left out
notRecording_ignored(v) == FALSE

\* `if (!this.isRecording) return`
notRecording(v) == ~v.isRecording

\* VoiceEngine.play started without a loaded buffer
play_unguarded(v) ==
    [v EXCEPT !.playerState = "started", !.isPlaying = TRUE]

\* VoiceEngine.play
play(v) ==
    IF v.playerLoaded
    THEN [v EXCEPT !.playerState = "started", !.isPlaying = TRUE]
    ELSE v

\* VoiceEngine.stop
stop(v) == [v EXCEPT !.playerState = "stopped", !.isPlaying = FALSE]

\* VoiceDashboard.toggleRec, not recording: engine.startRecording(). With
\* the mic open it runs to its end; otherwise it suspends on mic.open().
ToggleRecStart ==
    /\ ~dashboard.isRecording
    /\ IF voice.micState = "started"
       THEN /\ voice' = recordingStarted(voice)
            /\ dashboard' = syncState(voice')
            /\ voiceEvent' = VoiceEvent("startRecording", "run", 1)
            /\ UNCHANGED voiceOps
       ELSE /\ CanSuspend
            /\ voiceOps' = suspend(voiceOps, "startRecording", "micOpen")
            /\ voiceEvent' = VoiceEvent("startRecording", "call", 0)
            /\ UNCHANGED <<voice, dashboard>>
    /\ UNCHANGED fx

\* mic.open() resolved: startMic returns and startRecording runs on
MicOpened ==
    /\ IsSuspended("startRecording", "micOpen")
    /\ voiceOps' = resume(voiceOps, "startRecording", "micOpen")
    /\ voice' = recordingStarted([voice EXCEPT !.micState = "started"])
    /\ dashboard' = syncState(voice')
    /\ voiceEvent' = VoiceEvent("startRecording", "micOpened", 1)
    /\ UNCHANGED fx

\* mic.open() rejected: startMic logs the error and returns, and
\* startRecording finds `this.mic.state === 'started'` false
MicFailed ==
    /\ IsSuspended("startRecording", "micOpen")
    /\ voiceOps' = resume(voiceOps, "startRecording", "micOpen")
    /\ voice' = recordingStarted(voice)
    /\ dashboard' = IF voice.micState = "started"
                    THEN syncState(voice') ELSE dashboard
    /\ voiceEvent' = VoiceEvent("startRecording", "micFailed",
                                IF voice.micState = "started" THEN 1 ELSE 0)
    /\ UNCHANGED fx

\* VoiceDashboard.toggleRec, recording: engine.stopRecording(). It returns
\* at once when the engine is not recording; recorder.stop() on a recorder
\* that is not started rejects, and the catch block completes the call;
\* otherwise the call suspends until the recorder hands over its blob.
ToggleRecStop ==
    /\ dashboard.isRecording
    /\ IF notRecording(voice)
       THEN /\ voiceEvent' = VoiceEvent("stopRecording", "notRecording", 0)
            /\ UNCHANGED <<voice, dashboard, voiceOps>>
       ELSE IF voice.recorderState # "started"
       THEN /\ voice' = [voice EXCEPT !.isRecording = FALSE]
            /\ dashboard' = syncState(voice')
            /\ voiceEvent' = VoiceEvent("stopRecording", "stopFailed", 1)
            /\ UNCHANGED voiceOps
       ELSE /\ CanSuspend
            /\ voice' = [voice EXCEPT !.recorderState = "stopped"]
            /\ voiceOps' = suspend(voiceOps, "stopRecording", "recorderStop")
            /\ voiceEvent' = VoiceEvent("stopRecording", "call", 0)
            /\ UNCHANGED dashboard
    /\ UNCHANGED fx

\* recorder.stop() resolved with a blob: isRecording is cleared; an empty
\* blob ends the call, any other suspends it on player.load(url)
RecorderStopped(blobEmpty) ==
    /\ IsSuspended("stopRecording", "recorderStop")
    /\ voice' = [voice EXCEPT !.isRecording = FALSE]
    /\ IF blobEmpty
       THEN /\ voiceOps' = resume(voiceOps, "stopRecording", "recorderStop")
            /\ dashboard' = syncState(voice')
            /\ voiceEvent' = VoiceEvent("stopRecording", "emptyBlob", 1)
       ELSE /\ voiceOps' = suspend(resume(voiceOps, "stopRecording",
                                          "recorderStop"),
                                   "stopRecording", "playerLoad")
            /\ voiceEvent' = VoiceEvent("stopRecording", "blob", 0)
            /\ UNCHANGED dashboard
    /\ UNCHANGED fx

\* player.load(url) of the recording resolved or rejected: either way
\* stopRecording dispatches 'state-change' and returns
RecordingLoaded(ok) ==
    /\ IsSuspended("stopRecording", "playerLoad")
    /\ voiceOps' = resume(voiceOps, "stopRecording", "playerLoad")
    /\ voice' = IF ok THEN [voice EXCEPT !.playerLoaded = TRUE] ELSE voice
    /\ dashboard' = syncState(voice')
    /\ voiceEvent' = VoiceEvent("stopRecording",
                                IF ok THEN "loaded" ELSE "loadFailed", 1)
    /\ UNCHANGED fx

\* VoiceDashboard.togglePlay
VoiceTogglePlay ==
    /\ IF dashboard.isPlaying
       THEN /\ voice' = stop(voice)
            /\ dashboard' = syncState(voice')
            /\ voiceEvent' = VoiceEvent("stop", "toggle", 1)
       ELSE /\ voice' = play(voice)
            /\ dashboard' = IF voice.playerLoaded
                            THEN syncState(voice') ELSE dashboard
            /\ voiceEvent' = VoiceEvent("play", "toggle",
                                        IF voice.playerLoaded THEN 1 ELSE 0)
    /\ UNCHANGED <<fx, voiceOps>>

\* the STOP button: engine.stop()
VoiceStop ==
    /\ voice' = stop(voice)
    /\ dashboard' = syncState(voice')
    /\ voiceEvent' = VoiceEvent("stop", "button", 1)
    /\ UNCHANGED <<fx, voiceOps>>

\* VoiceDashboard.handleFileLoad: engine.loadFile(file) suspends on
\* player.load(url)
HandleFileLoad ==
    /\ CanSuspend
    /\ voiceOps' = suspend(voiceOps, "loadFile", "playerLoad")
    /\ voiceEvent' = VoiceEvent("loadFile", "call", 0)
    /\ UNCHANGED <<voice, fx, dashboard>>

\* player.load(url) of the file resolved: 'state-change' is dispatched
FileLoaded ==
    /\ IsSuspended("loadFile", "playerLoad")
    /\ voiceOps' = resume(voiceOps, "loadFile", "playerLoad")
    /\ voice' = [voice EXCEPT !.playerLoaded = TRUE]
    /\ dashboard' = syncState(voice')
    /\ voiceEvent' = VoiceEvent("loadFile", "loaded", 1)
    /\ UNCHANGED fx

\* player.load(url) of the file rejected: the catch block only logs
FileLoadFailed ==
    /\ IsSuspended("loadFile", "playerLoad")
    /\ voiceOps' = resume(voiceOps, "loadFile", "playerLoad")
    /\ voiceEvent' = VoiceEvent("loadFile", "loadFailed", 0)
    /\ UNCHANGED <<voice, fx, dashboard>>

\* VoiceDashboard.setPreset -> VoiceEngine.setPreset(index)
SetPreset(index) ==
    /\ voice' = [voice EXCEPT !.currentPreset = index]
    /\ fx' = setPreset(fx, index)
    /\ dashboard' = syncState(voice')
    /\ voiceEvent' = VoiceEvent("setPreset", index, 1)
    /\ UNCHANGED voiceOps

\* the constructor ends with `this.setPreset(0)`; no listener is attached yet
VoiceUnitInit ==
    /\ voice = VoiceInit
    /\ fx = setPreset(FxConstructed, 0)
    /\ dashboard = syncState(VoiceInit)
    /\ voiceOps = EmptyBag
    /\ voiceEvent = [op |-> "init", arg |-> "run", dispatched |-> 0,
                     repeat |-> FALSE, settled |-> "returned"]
-----------------------------------------------------------------------------
(* The crossfader: AudioEngine.crossfader and the PromptDjMidi handlers.   *)

\* `new Tone.CrossFade(0.5)` and `xFaderValue = 0.5`
initialFade == Rat(1, 2)

InUnitRange(value) == RatLe(Num(0), value) /\ RatLe(value, Num(1))

\* the side of the crossfader each deck was given the other way round
deckOutput_swapped == [d \in Decks |-> IF d = "A" THEN "b" ELSE "a"]

\* `new Deck('A', this.crossfader.a, this)`, `new Deck('B', this.crossfader.b,
\* this)`: the input of the crossfader each deck's chain ends in
deckOutput == [d \in Decks |-> IF d = "A" THEN "a" ELSE "b"]

\* Tone.CrossFade: at fade 0 all of input a and none of b, at fade 1 all of
\* b and none of a, a share of both in between
crossFadeGain(side, fade) ==
    IF fade = Num(0) THEN (IF side = "a" THEN "full" ELSE "none")
    ELSE IF fade = Num(1) THEN (IF side = "b" THEN "full" ELSE "none")
    ELSE "partial"

\* how much of deck d reaches the destination
deckGain(d) == crossFadeGain(deckOutput[d], crossfade)

\* AudioEngine.setCrossfader: `this.crossfader.fade.rampTo(value, 0.05)`
\* hands value on as it is. The fade signal has the normal range 0..1; given
\* a value outside it, it either ramps to that value or refuses it with a
\* RangeError, and then keeps the fade it has.
setCrossfader(fade, value) ==
    IF InUnitRange(value) THEN {value} ELSE {value, fade}

\* PromptDjMidi.handleXFader
HandleXFader(op, val) ==
    /\ xFaderValue' = val
    /\ crossfade' \in setCrossfader(crossfade, val)
    /\ busEvent' = [op |-> op, value |-> val]

\* positions of the crossfader slider, <input type="range" min="0" max="1"
\* step="0.01">: both ends, the steps next to them and the middle
SliderValues == {Rat(k, 100) : k \in {0, 1, 50, 99, 100}}

\* PromptDjMidi.handleXFaderInput
HandleXFaderInput(val) == HandleXFader("slider", val)

\* data bytes of a MIDI control change (0..127): both ends, the values next
\* to them and the middle
MidiValues == {0, 1, 64, 126, 127}

\* crossfader, master volume, and a controller that is not mapped
MidiControllers == {10, 7, 1}

\* PromptDjMidi.handleMidiCC; the master volume is not part of the model
HandleMidiCC(cc, value) ==
    IF cc = 10
    THEN HandleXFader("midiCC", Rat(value, 127))
    ELSE /\ busEvent' = [op |-> "midiOther", value |-> Rat(value, 127)]
         /\ UNCHANGED <<crossfade, xFaderValue>>

\* numbers a caller of the public AudioEngine.setCrossfader passes
CrossfaderArgs == {Rat(-1, 2), Num(0), Rat(1, 4), Num(1), Rat(3, 2)}

\* AudioEngine.setCrossfader called directly
SetCrossfader(value) ==
    /\ crossfade' \in setCrossfader(crossfade, value)
    /\ busEvent' = [op |-> "setCrossfader", value |-> value]
    /\ UNCHANGED xFaderValue

MixerInit ==
    /\ crossfade = initialFade
    /\ xFaderValue = initialFade
    /\ busEvent = [op |-> "init", value |-> initialFade]
-----------------------------------------------------------------------------
(* Specifications.                                                         *)

NotEstimated == [done |-> FALSE, bpm |-> Num(0)]

\* the estimator is not running
EstimatorIdle ==
    /\ estBuffer = PulseTrain(44100, 22050, 0, 1, 0)
    /\ estResult = NotEstimated

\* Deck.detectBPM applied to the buffer
DetectBPM ==
    /\ ~estResult.done
    /\ estResult' = [done |-> TRUE, bpm |-> detectBPM(estBuffer)]
    /\ UNCHANGED <<estBuffer, deckVars, voiceVars, mixVars>>

TempoInit ==
    /\ estBuffer \in TestBuffers \cup AlternatingBuffers
    /\ estResult = NotEstimated
    /\ DecksInit
    /\ VoiceUnitInit
    /\ MixerInit

TempoNext == DetectBPM

\* the tempo estimator on every test buffer
TempoSpec == TempoInit /\ [][TempoNext]_vars

Init ==
    /\ EstimatorIdle
    /\ DecksInit
    /\ VoiceUnitInit
    /\ MixerInit

Next ==
    \/ \E d \in Decks : LoadTrack(d) /\ UNCHANGED <<estVars, voiceVars, mixVars>>
    \/ \E d \in Decks, track \in Tracks :
          LoadResolved(d, track) /\ UNCHANGED <<estVars, voiceVars, mixVars>>
    \/ \E d \in Decks : LoadRejected(d) /\ UNCHANGED <<estVars, voiceVars, mixVars>>
    \/ \E d \in Decks : TogglePlay(d) /\ UNCHANGED <<estVars, voiceVars, mixVars>>
    \/ \E d \in Decks : ToggleSync(d) /\ UNCHANGED <<estVars, voiceVars, mixVars>>
    \/ \E d \in Decks, rate \in RateKnobValues :
          HandleRate(d, rate) /\ UNCHANGED <<estVars, voiceVars, mixVars>>
    \/ \E bpm \in MasterKnobValues :
          HandleMasterBpm(bpm) /\ UNCHANGED <<estVars, voiceVars, mixVars>>

\* the two decks and the master tempo
Spec == Init /\ [][Next]_vars

VoiceNext ==
    \/ ToggleRecStart /\ UNCHANGED <<estVars, deckVars, mixVars>>
    \/ MicOpened /\ UNCHANGED <<estVars, deckVars, mixVars>>
    \/ MicFailed /\ UNCHANGED <<estVars, deckVars, mixVars>>
    \/ ToggleRecStop /\ UNCHANGED <<estVars, deckVars, mixVars>>
    \/ \E blobEmpty \in BOOLEAN :
          RecorderStopped(blobEmpty) /\ UNCHANGED <<estVars, deckVars, mixVars>>
    \/ \E ok \in BOOLEAN :
          RecordingLoaded(ok) /\ UNCHANGED <<estVars, deckVars, mixVars>>
    \/ VoiceTogglePlay /\ UNCHANGED <<estVars, deckVars, mixVars>>
    \/ VoiceStop /\ UNCHANGED <<estVars, deckVars, mixVars>>
    \/ HandleFileLoad /\ UNCHANGED <<estVars, deckVars, mixVars>>
    \/ FileLoaded /\ UNCHANGED <<estVars, deckVars, mixVars>>
    \/ FileLoadFailed /\ UNCHANGED <<estVars, deckVars, mixVars>>
    \/ \E index \in Presets : SetPreset(index) /\ UNCHANGED <<estVars, deckVars, mixVars>>

\* the voice unit
VoiceSpec == Init /\ [][VoiceNext]_vars

\* the deck that takes part in LoadSpec
LoadDecks == {"A"}

LoadNext ==
    \/ \E d \in LoadDecks :
          LoadTrackOverlapping(d) /\ UNCHANGED <<estVars, voiceVars, mixVars>>
    \/ \E d \in LoadDecks, track \in Tracks :
          LoadResolved(d, track) /\ UNCHANGED <<estVars, voiceVars, mixVars>>
    \/ \E d \in LoadDecks : LoadRejected(d) /\ UNCHANGED <<estVars, voiceVars, mixVars>>
    \/ \E d \in LoadDecks : TogglePlay(d) /\ UNCHANGED <<estVars, voiceVars, mixVars>>
    \/ \E d \in LoadDecks : ToggleSync(d) /\ UNCHANGED <<estVars, voiceVars, mixVars>>
    \/ HandleFileLoad /\ UNCHANGED <<estVars, deckVars, mixVars>>
    \/ FileLoaded /\ UNCHANGED <<estVars, deckVars, mixVars>>
    \/ FileLoadFailed /\ UNCHANGED <<estVars, deckVars, mixVars>>
    \/ VoiceTogglePlay /\ UNCHANGED <<estVars, deckVars, mixVars>>

\* loading files into a deck and into the voice unit, with their transports
LoadSpec == Init /\ [][LoadNext]_vars

MixerNext ==
    \/ \E val \in SliderValues :
          HandleXFaderInput(val) /\ UNCHANGED <<estVars, deckVars, voiceVars>>
    \/ \E cc \in MidiControllers, value \in MidiValues :
          HandleMidiCC(cc, value) /\ UNCHANGED <<estVars, deckVars, voiceVars>>
    \/ \E value \in CrossfaderArgs :
          SetCrossfader(value) /\ UNCHANGED <<estVars, deckVars, voiceVars>>

\* the crossfader
MixerSpec == Init /\ [][MixerNext]_vars
-----------------------------------------------------------------------------
(* Properties of the decks and the master tempo (Spec).                    *)

\* playbackRate * bpm = masterBpm, i.e. playbackRate = masterBpm / bpm
TempoLocked(d) == RatMul(deck[d].playbackRate, deck[d].bpm) = masterBpm

KnownBpm(d) == RatGt(deck[d].bpm, Num(0))

\* the last operation was AudioEngine.setMasterBpm, called by the master
\* BPM knob or by a loadTrack that adopted its bpm
MasterTempoSet ==
    \/ deckEvent.op = "setMasterBpm"
    \/ deckEvent.op = "loaded" /\ deckEvent.adopted

\* the last operation was a toggleSync of deck d that turned sync on
SyncTurnedOn(d) ==
    deckEvent.op = "toggleSync" /\ deckEvent.deck = d /\ deck[d].isSynced

\* C1: right after setMasterBpm while a deck is synced, and right after a
\* toggleSync that turns its sync on, a deck with bpm > 0 plays at
\* masterBpm / bpm.
C1_RateAfterSync ==
    \A d \in Decks :
        (KnownBpm(d) /\ ((MasterTempoSet /\ deck[d].isSynced) \/ SyncTurnedOn(d)))
            => TempoLocked(d)

\* the master BPM knob has just been turned with both decks synced on
\* tracks of different tempo
C1_Witness ==
    /\ deckEvent.op = "setMasterBpm"
    /\ \A d \in Decks : deck[d].isSynced /\ KnownBpm(d) /\ TempoLocked(d)
    /\ deck["A"].bpm # deck["B"].bpm

\* C2: every synced deck with bpm > 0 plays at masterBpm / bpm in every
\* reachable state (masterBpm > 0), also right after it loaded a track.
C2_SyncedDecksLocked ==
    \A d \in Decks :
        (deck[d].isSynced /\ KnownBpm(d) /\ RatGt(masterBpm, Num(0)))
            => TempoLocked(d)

\* C3: a loadTrack that completes with bpm > 0 while masterBpm is 120 makes
\* that bpm the master tempo and leaves every synced deck of known bpm at
\* masterBpm / bpm; one that completes with bpm 0 leaves masterBpm alone.
C3_AdoptionOnLoad ==
    [][\A d \in Decks :
          (deckEvent'.op = "loaded" /\ deckEvent'.deck = d) =>
             /\ (masterBpm = Num(defaultMasterBpm) /\ RatGt(deck'[d].bpm, Num(0)))
                   => /\ masterBpm' = deck'[d].bpm
                      /\ \A e \in Decks :
                            (deck'[e].isSynced /\ RatGt(deck'[e].bpm, Num(0)))
                               => RatMul(deck'[e].playbackRate, deck'[e].bpm)
                                     = masterBpm'
             /\ (deck'[d].bpm = Num(0)) => masterBpm' = masterBpm]_vars

\* a load has just adopted its bpm while the other deck, synced on a track
\* of another tempo, was re-locked to it
C3_Witness ==
    /\ deckEvent.op = "loaded"
    /\ deckEvent.adopted
    /\ \E d \in Decks :
          /\ d # deckEvent.deck
          /\ deck[d].isSynced
          /\ KnownBpm(d)
          /\ deck[d].bpm # masterBpm
          /\ TempoLocked(d)

\* C4: once a loadTrack has adopted its bpm as the master tempo, no later
\* loadTrack changes masterBpm.
C4_AdoptsOnlyOnce ==
    [][(hasAdopted /\ deckEvent'.op = "loaded") => masterBpm' = masterBpm]_vars

\* C15: when a loadTrack has completed, its deck is stopped: isPlaying is
\* false and the player is not running.
C15_LoadStopsTransport ==
    \A d \in Decks :
        (deckEvent.op = "loaded" /\ deckEvent.deck = d)
            => (~deck[d].isPlaying /\ deck[d].playerState = "stopped")

\* C23: the playbackRate of each deck, and the rate of its player, is
\* strictly positive.
C23_RatePositive ==
    \A d \in Decks :
        /\ RatGt(deck[d].playbackRate, Num(0))
        /\ RatGt(deck[d].playerRate, Num(0))

\* one deck is slowed down by sync to a master tempo below its own, the
\* other runs at the lowest rate of the RATE knob
C23_Witness ==
    \E d, e \in Decks :
        /\ deck[d].isSynced
        /\ KnownBpm(d)
        /\ TempoLocked(d)
        /\ RatLt(deck[d].playbackRate, Num(1))
        /\ ~deck[e].isSynced
        /\ deck[e].playbackRate = Rat(1, 2)

C29_LoadedAfterAdoption ==
    \A d \in Decks :
        (deckEvent.op = "loaded" /\ deckEvent.deck = d)
            => /\ Len(deckEvent.loaded) = 1
               /\ deckEvent.loaded[1].bpm = deck[d].bpm
               /\ djDeck[d].bpm = deck[d].bpm
               /\ deckEvent.loaded[1].master = masterBpm
               /\ deckEvent.adopted
                     => /\ masterBpm = deck[d].bpm
                        /\ \A e \in Decks :
                              (deck[e].isSynced /\ KnownBpm(e))
                                 => TempoLocked(e)

\* a load has just adopted its bpm, with both decks synced
C29_Witness ==
    /\ deckEvent.op = "loaded"
    /\ deckEvent.adopted
    /\ Len(deckEvent.loaded) = 1
    /\ deckEvent.loaded[1].master # Num(defaultMasterBpm)
    /\ \A d \in Decks : deck[d].isSynced /\ KnownBpm(d)

\* this step recomputes the synced rate of deck d: toggleSync turning its
\* sync on, setMasterBpm while it is synced, or playPause starting it while
\* it is synced
SyncRecompute(d) ==
    \/ /\ deckEvent'.op = "toggleSync"
       /\ deckEvent'.deck = d
       /\ deck'[d].isSynced
    \/ /\ \/ deckEvent'.op = "setMasterBpm"
          \/ deckEvent'.op = "loaded" /\ deckEvent'.adopted
       /\ deck[d].isSynced
    \/ /\ deckEvent'.op = "playPause"
       /\ deckEvent'.deck = d
       /\ deck'[d].isPlaying
       /\ deck[d].isSynced

\* C30: a sync recompute on a deck whose bpm is 0 leaves its playbackRate
\* as it was; toggleSync still flips isSynced.
C30_UnknownBpmNeverRerated ==
    [][\A d \in Decks :
          (deck[d].bpm = Num(0) /\ deck'[d].bpm = Num(0) /\ SyncRecompute(d))
             => /\ deck'[d].playbackRate = deck[d].playbackRate
                /\ deck'[d].playerRate = deck[d].playerRate
                /\ deckEvent'.op = "toggleSync"
                      => deck'[d].isSynced = ~deck[d].isSynced]_vars

\* the master BPM knob has just been turned while a synced deck without a
\* known tempo runs at the rate its RATE knob gave it
C30_Witness ==
    \E d \in Decks :
        /\ deckEvent.op = "setMasterBpm"
        /\ deck[d].isSynced
        /\ deck[d].bpm = Num(0)
        /\ deck[d].playbackRate = Rat(1, 2)

\* deck d has the same transport in both states of the step
SameTransport(d) ==
    /\ deck'[d].isPlaying = deck[d].isPlaying
    /\ deck'[d].playerState = deck[d].playerState

\* what setMasterBpm does to deck d, whose bpm is known by the time of the
\* call: synced before the step, it is re-rated against the new master
\* tempo; unsynced, it keeps its rate
RecomputedIfSynced(d) ==
    /\ deck'[d].isSynced = deck[d].isSynced
    /\ SameTransport(d)
    /\ deck'[d].playerRate = deck'[d].playbackRate
    /\ IF deck[d].isSynced /\ RatGt(deck'[d].bpm, Num(0))
       THEN deck'[d].playbackRate = RatDiv(masterBpm', deck'[d].bpm)
       ELSE deck'[d].playbackRate = deck[d].playbackRate

\* C31: setMasterBpm stores the new master tempo and re-rates, against
\* that new tempo, exactly the decks synced at the time of the call; an
\* unsynced deck keeps playbackRate, bpm, isSynced and transport. When the
\* call comes from a loadTrack that adopts its bpm, the loading deck's bpm
\* is the one loadTrack stored just before the call.
C31_MasterTempoFrame ==
    [][/\ deckEvent'.op = "setMasterBpm" =>
             \A d \in Decks :
                /\ RecomputedIfSynced(d)
                /\ deck'[d].bpm = deck[d].bpm
                /\ ~deck[d].isSynced => deck'[d] = deck[d]
       /\ (deckEvent'.op = "loaded" /\ deckEvent'.adopted) =>
             \A d \in Decks :
                /\ RecomputedIfSynced(d)
                /\ d # deckEvent'.deck => deck'[d].bpm = deck[d].bpm
                /\ (d # deckEvent'.deck /\ ~deck[d].isSynced)
                      => deck'[d] = deck[d]]_vars

\* the master BPM knob has just been turned: one deck, synced, follows the
\* new tempo while the other, unsynced and playing a track of known
\* tempo, still runs at the rate its RATE knob gave it
C31_Witness ==
    /\ deckEvent.op = "setMasterBpm"
    /\ \E d, e \in Decks :
          /\ deck[d].isSynced
          /\ KnownBpm(d)
          /\ TempoLocked(d)
          /\ deck[d].playbackRate # Num(1)
          /\ ~deck[e].isSynced
          /\ KnownBpm(e)
          /\ deck[e].isPlaying
          /\ deck[e].playbackRate = Rat(1, 2)
          /\ ~TempoLocked(e)

\* this step is a toggleSync of deck d that turns its sync off
SyncTurnedOff(d) ==
    /\ deckEvent'.op = "toggleSync"
    /\ deckEvent'.deck = d
    /\ deck[d].isSynced

\* C32: a toggleSync that turns sync off leaves the deck unsynced at
\* playbackRate 1, whatever its rate was, and changes neither its bpm, its
\* transport, the master tempo nor the other deck.
C32_SyncOffResetsRate ==
    [][\A d \in Decks :
          SyncTurnedOff(d) =>
             /\ deck'[d] = [deck[d] EXCEPT !.isSynced = FALSE,
                                           !.playbackRate = Num(1),
                                           !.playerRate = Num(1)]
             /\ djDeck'[d].isSynced = FALSE
             /\ masterBpm' = masterBpm
             /\ \A e \in Decks \ {d} : deck'[e] = deck[e]]_vars

\* sync has just been turned off on a playing deck whose track runs at
\* another tempo than the master, so that sync held it at a rate other
\* than 1
C32_Witness ==
    \E d \in Decks :
        /\ deckEvent.op = "toggleSync"
        /\ deckEvent.deck = d
        /\ ~deck[d].isSynced
        /\ deck[d].playbackRate = Num(1)
        /\ deck[d].isPlaying
        /\ KnownBpm(d)
        /\ deck[d].bpm # masterBpm
        /\ masterBpm # Num(defaultMasterBpm)

\* this step is a handleRate of deck d
RateKnobTurned(d) == deckEvent'.op = "handleRate" /\ deckEvent'.deck = d

\* C33: a handleRate leaves its deck unsynced, in the deck and in the
\* DjDeck component, at the rate of the knob; an unsynced deck becomes
\* synced by a toggleSync only, and while it is unsynced no setMasterBpm
\* changes its playbackRate.
C33_RateOverrideSticks ==
    [][\A d \in Decks :
          /\ RateKnobTurned(d) =>
                /\ ~deck'[d].isSynced
                /\ ~djDeck'[d].isSynced
                /\ deck'[d].playbackRate \in RateKnobValues
                /\ deck'[d].playerRate = deck'[d].playbackRate
          /\ (~deck[d].isSynced /\ deck'[d].isSynced) =>
                (deckEvent'.op = "toggleSync" /\ deckEvent'.deck = d)
          /\ (~deck[d].isSynced /\ MasterTempoSet') =>
                /\ deck'[d].playbackRate = deck[d].playbackRate
                /\ deck'[d].playerRate = deck[d].playerRate]_vars

\* the RATE knob has just been turned on a playing deck that was synced to
\* a master tempo other than its track's: the deck is unsynced and runs at
\* the knob's rate
C33_Witness ==
    \E d \in Decks :
        /\ deckEvent.op = "handleRate"
        /\ deckEvent.deck = d
        /\ deckEvent.unsynced
        /\ ~deck[d].isSynced
        /\ deck[d].playbackRate = Rat(1, 2)
        /\ deck[d].isPlaying
        /\ KnownBpm(d)
        /\ deck[d].bpm # masterBpm
-----------------------------------------------------------------------------
(* Properties of the tempo estimator (TempoSpec).                          *)

\* no sample of the buffer exceeds 0.6 of full scale
Silent(buffer) ==
    \A i \in DOMAIN buffer.channelData : buffer.channelData[i] <= 60

InRange(bpm) == RatLe(Num(70), bpm) /\ RatLe(bpm, Num(180))

\* C5: the estimator returns exactly 0 for a zero-length buffer, for
\* silence and for any buffer with fewer than 10 detected peaks.
C5_DegenerateIsZero ==
    (/\ estResult.done
     /\ \/ estBuffer.length = 0
        \/ Silent(estBuffer)
        \/ Len(findPeaks(estBuffer)) < 10)
        => estResult.bpm = Num(0)

\* the estimator has run on a buffer in which it detects exactly 9 peaks
C5_Witness ==
    /\ estResult.done
    /\ Len(findPeaks(estBuffer)) = 9
    /\ estResult.bpm = Num(0)

\* C6: the estimator's result is 0 or lies in [70, 180].
C6_ResultInRange ==
    estResult.done => (estResult.bpm = Num(0) \/ InRange(estResult.bpm))

\* the tempo of transients `spacing` samples apart: 60 * sampleRate / spacing,
\* doubled below 70, halved above 180, rounded
PulseTempo(sampleRate, spacing) ==
    LET bpm == Rat(60 * sampleRate, spacing)
        corrected == IF RatLt(bpm, Num(70)) THEN RatMul(bpm, Num(2))
                     ELSE IF RatGt(bpm, Num(180)) THEN RatDiv(bpm, Num(2))
                     ELSE bpm
    IN  Num(MathRound(corrected))

\* C7: at least 10 above-threshold peaks at a constant spacing of d samples
\* give the tempo 60 * sampleRate / d, octave-corrected and rounded; peaks
\* every 0.5 s at 44.1 kHz over 10 s give 120.
C7_ConstantSpacingTempo ==
    \A x \in TestInputs :
        (/\ estResult.done
         /\ estBuffer = PulseTrain(x[1], x[2], x[3], x[4], x[5])
         /\ x[5] > 60
         /\ Len(findPeaks(estBuffer)) >= 10)
            => estResult.bpm = PulseTempo(x[1], x[2])

\* the distinct elements of seq in the order of their first occurrence
RECURSIVE firstOccurrences(_, _)
firstOccurrences(seq, seen) ==
    IF seq = <<>> THEN <<>>
    ELSE IF Head(seq) \in seen THEN firstOccurrences(Tail(seq), seen)
    ELSE <<Head(seq)>> \o firstOccurrences(Tail(seq), seen \cup {Head(seq)})

\* the most frequent quantized interval, the one met first in the sequence
\* of intervals winning a tie
FirstEncounteredBest(intervals) ==
    LET rounded == [k \in DOMAIN intervals |-> roundInterval(intervals[k])]
    IN  mostCommon(groupIntervals(intervals), firstOccurrences(rounded, {}),
                   0, 0)

\* C25: the estimate is computed from the most frequent quantized interval,
\* and of several with the highest count from the one that occurs first in
\* the sequence of peak intervals.
C25_TieBreakFirstEncountered ==
    LET peaks == findPeaks(estBuffer)
        best == FirstEncounteredBest(peakIntervals(peaks))
    IN  (estResult.done /\ Len(peaks) >= minPeaks /\ best # 0)
            => estResult.bpm = octaveCorrect(rawBpm(estBuffer.sampleRate, best))

\* C26: every value the estimator returns is an integer.
C26_ResultIsInteger == estResult.done => estResult.bpm.d = 1

\* the buffer with the sign of every sample inverted
Inverted(buffer) ==
    [buffer EXCEPT !.channelData = [i \in DOMAIN @ |-> -@[i]]]

\* C27: a buffer whose transients are all negative-going, at least 10 of
\* them peaks by absolute amplitude, gets the estimate of its sign-inverted
\* copy.
C27_AbsoluteAmplitude ==
    (/\ estResult.done
     /\ \A i \in DOMAIN estBuffer.channelData : estBuffer.channelData[i] < 0
     /\ Len(findPeaks(Inverted(estBuffer))) >= minPeaks)
        => estResult.bpm = detectBPM(Inverted(estBuffer))

-----------------------------------------------------------------------------
(* Properties of the voice unit (VoiceSpec).                               *)

\* C8: after setPreset(id) every effect parameter that preset id does not
\* specify is at its neutral value, whatever presets were selected before.
C8_OmittedParamsNeutral ==
    voiceEvent.op = "setPreset" =>
        \A param \in FxParams \ OverlayParams(voice.currentPreset) :
            fx[param] = NeutralFx[param]

\* C9: setPreset(id) called twice in a row leaves the effect parameters and
\* currentPreset as the first call left them.
C9_PresetIdempotent ==
    [][(voiceEvent'.op = "setPreset" /\ voiceEvent'.repeat)
          => (fx' = fx /\ voice' = voice /\ dashboard' = dashboard)]_vars

\* preset 4 has just been selected a second time in a row, after preset 5
C9_Witness ==
    /\ voiceEvent.op = "setPreset"
    /\ voiceEvent.repeat
    /\ voice.currentPreset = 4
    /\ fx.delayFeedback = 60
    /\ fx.vibratoFrequency = 5000

\* C10: isRecording and isPlaying are never both true.
C10_RecordingExcludesPlaying == ~(voice.isRecording /\ voice.isPlaying)

\* the last step entered stopRecording (VoiceDashboard.toggleRec)
StopRecordingCalled ==
    /\ voiceEvent.op = "stopRecording"
    /\ voiceEvent.arg \in {"notRecording", "stopFailed", "call"}

\* C11: no step takes the voice unit from Recording (isRecording, not
\* playing) to a state that is Playing; a single step cannot pass through
\* Idle.
C11_RecordingToPlayingViaIdle ==
    [][(voice.isRecording /\ ~voice.isPlaying) => ~voice'.isPlaying]_vars

\* C12: no 'state-change' event is dispatched while a stopRecording call is
\* suspended on player.load with isRecording already cleared.
C12_NoTornNotification ==
    voiceEvent.dispatched > 0 => ~IsSuspended("stopRecording", "playerLoad")

\* C13: stopRecording entered while isRecording is false changes no field
\* of the engine, suspends nothing and dispatches no 'state-change'.
C13_StopWhenIdleIsNoOp ==
    [][(StopRecordingCalled' /\ ~voice.isRecording)
          => /\ voice' = voice
             /\ fx' = fx
             /\ dashboard' = dashboard
             /\ voiceOps' = voiceOps
             /\ voiceEvent'.dispatched = 0]_vars

\* stopRecording has just been entered by a dashboard that still shows
\* Recording, while an earlier stopRecording, which cleared isRecording, is
\* suspended on player.load
C13_Witness ==
    /\ StopRecordingCalled
    /\ ~voice.isRecording
    /\ dashboard.isRecording
    /\ voiceEvent.dispatched = 0
    /\ IsSuspended("stopRecording", "playerLoad")

\* C14: play() with no buffer loaded leaves isPlaying false, does not start
\* the player and dispatches no 'state-change'.
C14_PlayWithoutBufferIsNoOp ==
    [][(voiceEvent'.op = "play" /\ ~voice.playerLoaded)
          => /\ voice' = voice
             /\ ~voice'.isPlaying
             /\ voice'.playerState = "stopped"
             /\ dashboard' = dashboard
             /\ voiceEvent'.dispatched = 0]_vars

\* play() has just been called on a unit that has no buffer, while a
\* loadFile is still suspended
C14_Witness ==
    /\ voiceEvent.op = "play"
    /\ ~voice.playerLoaded
    /\ ~voice.isPlaying
    /\ voiceEvent.dispatched = 0
    /\ IsSuspended("loadFile", "playerLoad")

\* the last step was the mic.open() of a startRecording call rejecting
MicOpenFailed ==
    voiceEvent.op = "startRecording" /\ voiceEvent.arg = "micFailed"

\* the last step ended a stopRecording call that was entered while recording
StopRecordingEnded ==
    /\ voiceEvent.op = "stopRecording"
    /\ voiceEvent.arg \in {"stopFailed", "emptyBlob", "loaded", "loadFailed"}

\* C16: when the mic.open() of a startRecording call fails, no field of the
\* voice state changes (isRecording is not set, the recorder is not
\* started) and no 'state-change' is dispatched.
C16_MicFailureChangesNothing ==
    [][MicOpenFailed'
          => /\ voice' = voice
             /\ fx' = fx
             /\ dashboard' = dashboard
             /\ voiceEvent'.dispatched = 0]_vars

\* C17: when the mic.open() of a startRecording call fails, the caller's
\* promise does not settle the way it does after a successful start.
C17_MicFailureSurfaced ==
    MicOpenFailed => voiceEvent.settled # settles("startRecording", "micOpened")

\* C18: when loadFile has loaded its file, the player holds a buffer, the
\* unit is not playing and one 'state-change' was dispatched.
C18_LoadFileStopsPlayback ==
    (voiceEvent.op = "loadFile" /\ voiceEvent.arg = "loaded")
        => /\ voice.playerLoaded
           /\ ~voice.isPlaying
           /\ voice.playerState = "stopped"
           /\ voiceEvent.dispatched = 1

\* C19: a stopRecording call entered while recording ends with isRecording
\* false and one 'state-change'; the player holds a buffer when the
\* recording was loaded and none when its load failed.
C19_StopRecordingEndsIdle ==
    StopRecordingEnded
        => /\ ~voice.isRecording
           /\ voiceEvent.dispatched = 1
           /\ voiceEvent.arg = "loaded" => voice.playerLoaded
           /\ voiceEvent.arg = "loadFailed" => ~voice.playerLoaded

-----------------------------------------------------------------------------
(* Properties of file loading in the deck and the voice unit (LoadSpec).   *)

\* this step is the player.load of a loadTrack on deck d rejecting
DeckLoadFails(d) ==
    /\ deckEvent'.op = "loadFailed"
    /\ deckEvent'.deck = d
    /\ pendingLoads'[d] # pendingLoads[d]

\* this step is the player.load of a loadFile rejecting
FileLoadFails ==
    /\ voiceEvent'.op = "loadFile"
    /\ voiceEvent'.arg = "loadFailed"
    /\ voiceOps' # voiceOps

\* C24: no deck ever has more than one loadTrack call in flight.
C24_SingleFlightLoads == \A d \in Decks : pendingLoads[d] <= 1

\* C20: a loadTrack whose load fails leaves the decks (bpm, playbackRate,
\* isSynced, transport), the master tempo and the DjDeck alone, dispatches
\* no 'loaded' and starts no new load; a loadFile whose load fails leaves
\* the voice state alone, dispatches no 'state-change' and starts no new
\* load.
C20_FailedLoadKeepsState ==
    [][/\ \A d \in Decks :
             DeckLoadFails(d)
                => /\ deck' = deck
                   /\ masterBpm' = masterBpm
                   /\ djDeck' = djDeck
                   /\ deckEvent'.loaded = NoLoaded
                   /\ pendingLoads' = [pendingLoads EXCEPT ![d] = @ - 1]
       /\ FileLoadFails
             => /\ voice' = voice
                /\ fx' = fx
                /\ dashboard' = dashboard
                /\ voiceEvent'.dispatched = 0
                /\ voiceOps' = resume(voiceOps, "loadFile", "playerLoad")]_vars

\* a load has just failed on a deck that is playing, synced to a master
\* tempo it adopted, and a loadFile has failed on a voice unit that is
\* playing an earlier file
C20_Witness ==
    /\ deckEvent.op = "loadFailed"
    /\ deck["A"].isPlaying
    /\ deck["A"].isSynced
    /\ KnownBpm("A")
    /\ masterBpm = deck["A"].bpm
    /\ voiceEvent.op = "loadFile"
    /\ voiceEvent.arg = "loadFailed"
    /\ voice.playerLoaded
    /\ voice.isPlaying

-----------------------------------------------------------------------------
(* Properties of the crossfader (MixerSpec).                               *)

Clamp01(value) ==
    IF RatLt(value, Num(0)) THEN Num(0)
    ELSE IF RatGt(value, Num(1)) THEN Num(1)
    ELSE value

\* C21: with the crossfader at 0 deck A is at full gain and deck B at none;
\* with it at 1 deck B is at full gain and deck A at none.
C21_CrossfadeRouting ==
    /\ crossfade = Num(0) => (deckGain("A") = "full" /\ deckGain("B") = "none")
    /\ crossfade = Num(1) => (deckGain("B") = "full" /\ deckGain("A") = "none")

\* a MIDI control change on CC 10 with value 127 has moved the crossfader
\* fully to deck B
C21_Witness ==
    /\ busEvent.op = "midiCC"
    /\ busEvent.value = Num(1)
    /\ crossfade = Num(1)
    /\ deckGain("B") = "full"

====
